---- MODULE Spec2Model ----
(***************************************************************************)
(* Model of the Lutz one-pass connected-component labeler                  *)
(* (lutzOnePass / lutzObject).  The scan of run() is split at its loop     *)
(* heads: one step per row start, per column, per trailing column and one  *)
(* for the final StoreClearance.  The helper methods are operators on a    *)
(* record that holds the members and the two locals co and pstop.          *)
(*                                                                         *)
(* std::vector::operator[] is unchecked.  An index outside the vector is   *)
(* undefined behaviour; two outcomes are modelled, chosen per step:        *)
(*   "segv"  - the access faults and the process dies inside run();        *)
(*   "stray" - the access lands in the SlackCells elements that follow     *)
(*             the vector in memory, which then behave as storage.         *)
(* An index beyond the slack faults under either outcome.                  *)
(***************************************************************************)
EXTENDS Integers, Sequences, FiniteSets, TLC

\* ---------------------------------------------------------------- bounds
MaxSide == 4
MaxCells == 12
SlackCells == 1
SparseSide == 4
SparseFg == 6
MinSide == 4
MinCells == 12
MinFg == 5
ApiSide == 2
ApiCells == 2
ShadeSide == 3
ShadeCells == 6
ObjSide == 1
MaxPixels == 2
CenSide == 3
CenOffset == 1
MantissaBits == 6
FracBits == 6
MaxEntries == 3
PairSide == 2
PairCells == 4
SignedSide == 3
SignedCells == 9
MaxNegative == 2

\* ------------------------------------------------------ program constants
COMPLETE == "COMPLETE"
INCOMPLETE == "INCOMPLETE"
OBJECT == "OBJECT"
NONOBJECT == "NONOBJECT"
PUSH == "PUSH"
POP == "POP"
NoMarker == "0"
UNSET == -1
XMinInit == 10000000
ValueMinInit == 1000000000
DefaultThreshold == 0
DefaultNPixelMin == 0
\* The null image pointer: a buffer with no readable sample.
NULL == [i \in {} |-> 0]
UNINIT == "indeterminate"
GARBAGE == "garbage"
UBOutcomes == {"segv", "stray"}
\* No second labeler has been constructed.
NoPeer == [pc |-> "none"]

\* No centroid call is in progress.
NoCall == [at |-> "none"]

\* No query result is held by the caller.
NoRet == [call |-> "none"]

VARIABLES m_image, m_xpix, m_ypix, m_threshold, m_npixelmin,
          m_MARKER, m_PSSTACK, m_START, m_END, m_INFO, m_STORE, m_Objects,
          m_PS, m_CS, co, pstop, xindx, yindx, pc, oob, stale, ret,
          target, cen, peer

\* A lutzObject the caller holds, and its centroid call in progress.
objvars == <<target, cen>>
cfgvars == <<m_image, m_xpix, m_ypix, m_threshold, m_npixelmin>>
memvars == <<m_MARKER, m_PSSTACK, m_START, m_END, m_INFO, m_STORE, m_Objects,
             m_PS, m_CS>>
vars == <<m_image, m_xpix, m_ypix, m_threshold, m_npixelmin,
          m_MARKER, m_PSSTACK, m_START, m_END, m_INFO, m_STORE, m_Objects,
          m_PS, m_CS, co, pstop, xindx, yindx, pc, oob, stale, ret,
          target, cen, peer>>

\* Samples: one at the default threshold (background), one above it.
Values == {DefaultThreshold, DefaultThreshold + 1}

\* ------------------------------------------------------------- lutzObject
pixData(x, y, val) == [m_xbin |-> x, m_ybin |-> y, m_value |-> val, m_scale |-> 1]

clear ==
  [m_pixInfo |-> <<>>, m_xmin |-> XMinInit, m_xmax |-> -XMinInit,
   m_ymin |-> XMinInit, m_ymax |-> -XMinInit,
   m_value_min |-> ValueMinInit, m_value_max |-> -ValueMinInit,
   m_value_sum |-> 0]

contains(obj, pixel) ==
  \E p \in 1..Len(obj.m_pixInfo) :
     /\ pixel.m_xbin = obj.m_pixInfo[p].m_xbin
     /\ pixel.m_ybin = obj.m_pixInfo[p].m_ybin

appendUnchecked(obj, pixel) ==
  [obj EXCEPT
     !.m_xmin = IF pixel.m_xbin < @ THEN pixel.m_xbin ELSE @,
     !.m_xmax = IF pixel.m_xbin > @ THEN pixel.m_xbin ELSE @,
     !.m_ymin = IF pixel.m_ybin < @ THEN pixel.m_ybin ELSE @,
     !.m_ymax = IF pixel.m_ybin > @ THEN pixel.m_ybin ELSE @,
     !.m_value_min = IF pixel.m_value < @ THEN pixel.m_value ELSE @,
     !.m_value_max = IF pixel.m_value > @ THEN pixel.m_value ELSE @,
     !.m_pixInfo = Append(@, pixel),
     !.m_value_sum = @ + pixel.m_value]

append(obj, pixel) ==
  IF contains(obj, pixel) THEN obj
  ELSE [obj EXCEPT
          !.m_xmin = IF pixel.m_xbin < @ THEN pixel.m_xbin ELSE @,
          !.m_xmax = IF pixel.m_xbin > @ THEN pixel.m_xbin ELSE @,
          !.m_ymin = IF pixel.m_ybin < @ THEN pixel.m_ybin ELSE @,
          !.m_ymax = IF pixel.m_ybin > @ THEN pixel.m_ybin ELSE @,
          !.m_value_min = IF pixel.m_value < @ THEN pixel.m_value ELSE @,
          !.m_value_max = IF pixel.m_value > @ THEN pixel.m_value ELSE @,
          !.m_pixInfo = Append(@, pixel),
          !.m_value_sum = @ + pixel.m_value]

RECURSIVE appendAll(_, _)
appendAll(obj, pixels) ==
  IF pixels = <<>> THEN obj
  ELSE appendAll(append(obj, Head(pixels)), Tail(pixels))

\* remove(index), lines 109-113: the sum gives up the pixel's value (through
\* pixData's operator double) and the pixel is erased; nothing else changes.
remove(obj, index) ==
  [obj EXCEPT
     !.m_value_sum = @ - obj.m_pixInfo[index + 1].m_value,
     !.m_pixInfo = SubSeq(@, 1, index) \o SubSeq(@, index + 2, Len(@))]

\* ------------------------------------------------- vectors of the labeler
\* A vector of n elements holding `fill`, followed by the slack cells, whose
\* content is not the vector's: it is GARBAGE until something is stored there.
Vec(n, fill) ==
  [i \in 0..(n + SlackCells - 1) |-> IF i < n THEN fill ELSE GARBAGE]
NoVec == [i \in {} |-> 0]

\* The members and locals as one record, with the outcome `ub` of this step.
Cur(ub) ==
  [xpix |-> m_xpix, npixelmin |-> m_npixelmin, ub |-> ub,
   MARKER |-> m_MARKER, PSSTACK |-> m_PSSTACK, START |-> m_START,
   END |-> m_END, INFO |-> m_INFO, STORE |-> m_STORE, Objects |-> m_Objects,
   PS |-> m_PS, CS |-> m_CS, co |-> co, pstop |-> pstop,
   fault |-> FALSE, oob |-> oob]

\* Index i is used on a vector of `size` elements.
Touch(s, size, i) ==
  IF s.fault THEN s
  ELSE IF 0 <= i /\ i < size THEN s
  ELSE IF s.ub = "stray" /\ size <= i /\ i < size + SlackCells
       THEN [s EXCEPT !.oob = TRUE]
  ELSE [s EXCEPT !.oob = TRUE, !.fault = TRUE]

\* Sequencing: the rest of a method is executed only while the process is alive.
Then(s, Op(_)) == IF s.fault THEN s ELSE Op(s)


\* size_t >= int: the int is converted to size_t, so a negative minimum
\* becomes 2^64 + m, which no vector size reaches.
SizeGESigned(n, m) == n >= m

SizeGE(n, m) == IF m < 0 THEN FALSE ELSE n >= m

\* --------------------------------------------------------------- the stacks
ModPSSTACK(s, status) ==
  IF status = PUSH THEN
    Then(Touch(s, s.xpix, s.pstop), LAMBDA t :
      [t EXCEPT !.PSSTACK[t.pstop] = t.PS, !.PS = COMPLETE, !.pstop = @ + 1])
  ELSE
    Then(Touch(s, s.xpix, s.pstop), LAMBDA t :
      Then(Touch(t, t.xpix, t.pstop - 1), LAMBDA u :
        [u EXCEPT !.PSSTACK[u.pstop] = COMPLETE,
                  !.PS = u.PSSTACK[u.pstop - 1],
                  !.pstop = @ - 1]))

PopToStoreDropsPixels(s) == s

\* The loop of ModOBSTACK(POP): INFO[co] is pushed onto STORE[START[co]].
PopToStore(s) ==
  IF s.INFO[s.co] = <<>> THEN s
  ELSE Then(Touch(s, s.xpix, s.START[s.co]), LAMBDA t :
         [t EXCEPT !.STORE[t.START[t.co]] = @ \o t.INFO[t.co]])

ModOBSTACKPushKeepsBuffer(s, status, xbin) ==
  IF status = PUSH THEN
    Then(ModPSSTACK(s, PUSH), LAMBDA t :
      Then(Touch(t, t.xpix, t.co + 1), LAMBDA u :
        [u EXCEPT !.co = @ + 1, !.START[u.co + 1] = xbin,
                  !.INFO[u.co + 1] = IF u.co + 1 < u.xpix THEN @ ELSE <<>>]))
  ELSE
    Then(ModPSSTACK(s, POP), LAMBDA t :
      Then(Touch(t, t.xpix, t.co), LAMBDA u :
        Then(PopToStore(u), LAMBDA v :
          [v EXCEPT !.INFO[v.co] = <<>>, !.START[v.co] = UNSET,
                    !.END[v.co] = UNSET, !.co = @ - 1])))

ModOBSTACK(s, status, xbin) ==
  IF status = PUSH THEN
    Then(ModPSSTACK(s, PUSH), LAMBDA t :
      Then(Touch(t, t.xpix, t.co + 1), LAMBDA u :
        [u EXCEPT !.co = @ + 1, !.START[u.co + 1] = xbin,
                  !.INFO[u.co + 1] = <<>>]))
  ELSE
    Then(ModPSSTACK(s, POP), LAMBDA t :
      Then(Touch(t, t.xpix, t.co), LAMBDA u :
        Then(PopToStore(u), LAMBDA v :
          [v EXCEPT !.INFO[v.co] = <<>>, !.START[v.co] = UNSET,
                    !.END[v.co] = UNSET, !.co = @ - 1])))

\* ------------------------------------------------------------- the segments
StartSegmentMinorOnly(s, x) ==
  LET s1 == [s EXCEPT !.CS = OBJECT] IN
  IF s1.PS = OBJECT THEN
    Then(Touch(s1, s1.xpix + 1, x), LAMBDA u : [u EXCEPT !.MARKER[x] = "s"])
  ELSE
    Then(ModOBSTACK(s1, PUSH, x), LAMBDA t :
      Then(Touch(t, t.xpix + 1, x), LAMBDA u :
        [u EXCEPT !.MARKER[x] = "S"]))

StartSegment(s, x) ==
  LET s1 == [s EXCEPT !.CS = OBJECT] IN
  IF s1.PS = OBJECT THEN
    Then(Touch(s1, s1.xpix, s1.co), LAMBDA t :
      IF t.START[t.co] = UNSET
      THEN Then(Touch(t, t.xpix + 1, x), LAMBDA u :
             [u EXCEPT !.MARKER[x] = "S", !.START[u.co] = x])
      ELSE Then(Touch(t, t.xpix + 1, x), LAMBDA u :
             [u EXCEPT !.MARKER[x] = "s"]))
  ELSE
    Then(ModOBSTACK(s1, PUSH, x), LAMBDA t :
      Then(Touch(t, t.xpix + 1, x), LAMBDA u :
        [u EXCEPT !.MARKER[x] = "S"]))

EndSegmentMinorOnly(s, x) ==
  LET s1 == [s EXCEPT !.CS = NONOBJECT] IN
  Then(Touch(s1, s1.xpix + 1, x), LAMBDA t :
    Then(Touch(t, t.xpix, t.co), LAMBDA u :
      [u EXCEPT !.MARKER[x] = "f", !.END[u.co] = x]))

EndSegment(s, x) ==
  LET s1 == [s EXCEPT !.CS = NONOBJECT] IN
  IF s1.PS # COMPLETE THEN
    Then(Touch(s1, s1.xpix + 1, x), LAMBDA t :
      Then(Touch(t, t.xpix, t.co), LAMBDA u :
        [u EXCEPT !.MARKER[x] = "f", !.END[u.co] = x]))
  ELSE
    Then(ModOBSTACK(s1, POP, x), LAMBDA t :
      Then(Touch(t, t.xpix + 1, x), LAMBDA u :
        [u EXCEPT !.MARKER[x] = "F"]))

\* ------------------------------------------------------------ the result list
WriteObject(s, obj) ==
  IF obj # <<>> /\ SizeGE(Len(obj), s.npixelmin)
  THEN [s EXCEPT !.Objects = Append(@, appendAll(clear, obj))]
  ELSE s

RECURSIVE StoreClearanceFrom(_, _)
StoreClearanceFrom(s, i) ==
  IF i >= s.xpix THEN s
  ELSE StoreClearanceFrom(
         [WriteObject(s, s.STORE[i]) EXCEPT !.STORE[i] = <<>>], i + 1)

StoreClearance(s) == StoreClearanceFrom(s, 0)


\* ------------------------------------------------------- marker resolution
\* 'S' with no open segment, lines 255-267: a new slot takes STORE[x].
StartMajorFirstKeepStore(t, x) ==
  Then(Touch(t, t.xpix, t.pstop), LAMBDA u :
    Then(Touch(u, u.xpix, u.co + 1), LAMBDA v :
      Then(Touch(v, v.xpix, x), LAMBDA w :
        [w EXCEPT !.PSSTACK[w.pstop] = COMPLETE, !.pstop = @ + 1,
                  !.co = @ + 1, !.INFO[w.co + 1] = w.STORE[x],
                  !.START[w.co + 1] = UNSET])))

StartMajorFirst(t, x) ==
  Then(Touch(t, t.xpix, t.pstop), LAMBDA u :
    Then(Touch(u, u.xpix, u.co + 1), LAMBDA v :
      Then(Touch(v, v.xpix, x), LAMBDA w :
        [w EXCEPT !.PSSTACK[w.pstop] = COMPLETE, !.pstop = @ + 1,
                  !.co = @ + 1, !.INFO[w.co + 1] = w.STORE[x],
                  !.START[w.co + 1] = UNSET, !.STORE[x] = <<>>])))

\* 'S' under an open segment, lines 268-276: STORE[x] joins the open slot.
StartMajorJoinDropStore(t, x) ==
  Then(Touch(t, t.xpix, x), LAMBDA u : [u EXCEPT !.STORE[x] = <<>>])

StartMajorJoin(t, x) ==
  Then(Touch(t, t.xpix, x), LAMBDA u :
    Then(IF u.STORE[x] = <<>> THEN u ELSE Touch(u, u.xpix, u.co), LAMBDA v :
      [v EXCEPT !.INFO[v.co] = IF v.STORE[x] = <<>> THEN @
                               ELSE @ \o v.STORE[x],
                !.STORE[x] = <<>>]))

ResolveStartMajorNoPush(s, x) ==
  Then(IF s.CS = NONOBJECT THEN StartMajorFirst(s, x)
       ELSE StartMajorJoin(s, x),
       LAMBDA u : [u EXCEPT !.PS = OBJECT])

\* Marker 'S', lines 249-278.
ResolveStartMajor(s, x) ==
  Then(ModPSSTACK(s, PUSH), LAMBDA t :
    Then(IF t.CS = NONOBJECT THEN StartMajorFirst(t, x)
         ELSE StartMajorJoin(t, x),
         LAMBDA u : [u EXCEPT !.PS = OBJECT]))

\* Marker 's', lines 279-292.
ResolveStartMinor(s) ==
  IF s.CS = OBJECT /\ s.PS = COMPLETE THEN
    Then(Touch(s, s.xpix, s.co), LAMBDA t :
      Then(Touch(t, t.xpix, t.co - 1), LAMBDA u :
        LET k == u.START[u.co] IN
        IF u.START[u.co - 1] = UNSET
        THEN [u EXCEPT !.pstop = @ - 1, !.co = @ - 1,
                       !.START[u.co - 1] = k, !.PS = OBJECT]
        ELSE Then(Touch(u, u.xpix + 1, k), LAMBDA v :
               [v EXCEPT !.pstop = @ - 1, !.co = @ - 1,
                         !.MARKER[k] = "s", !.PS = OBJECT])))
  ELSE [s EXCEPT !.PS = OBJECT]

CloseSlotWriteAlways(u) ==
  [WriteObject(u, u.INFO[u.co]) EXCEPT !.INFO[u.co] = <<>>]

\* Lines 303-314: the slot is written out, or parked in STORE.
CloseSlot(u) ==
  IF u.START[u.co] = UNSET
  THEN [WriteObject(u, u.INFO[u.co]) EXCEPT !.INFO[u.co] = <<>>]
  ELSE Then(Touch(u, u.xpix + 1, u.END[u.co]), LAMBDA v :
         Then(Touch(v, v.xpix, v.START[v.co]), LAMBDA w :
           [w EXCEPT !.MARKER[w.END[w.co]] = "F",
                     !.STORE[w.START[w.co]] = w.INFO[w.co]]))

ResolveEndMajorKeepSlot(s) ==
  Then(Touch(s, s.xpix, s.pstop - 1), LAMBDA t :
    LET t1 == [t EXCEPT !.pstop = @ - 1, !.PS = t.PSSTACK[t.pstop - 1]] IN
    IF t1.CS = NONOBJECT /\ t1.PS = COMPLETE THEN
      Then(Touch(t1, t1.xpix, t1.co), LAMBDA u : CloseSlot(u))
    ELSE t1)

\* Marker 'F', lines 296-319.
ResolveEndMajor(s) ==
  Then(Touch(s, s.xpix, s.pstop - 1), LAMBDA t :
    LET t1 == [t EXCEPT !.pstop = @ - 1, !.PS = t.PSSTACK[t.pstop - 1]] IN
    IF t1.CS = NONOBJECT /\ t1.PS = COMPLETE THEN
      Then(Touch(t1, t1.xpix, t1.co), LAMBDA u :
        Then(CloseSlot(u), LAMBDA v :
          Then(Touch(v, v.xpix, v.pstop - 1), LAMBDA w :
            [w EXCEPT !.co = @ - 1, !.pstop = @ - 1,
                      !.PS = w.PSSTACK[w.pstop - 1]])))
    ELSE t1)

ProcessNewMarker(s, prev_marker, x) ==
  IF prev_marker = "S" THEN ResolveStartMajor(s, x)
  ELSE IF prev_marker = "s" THEN ResolveStartMinor(s)
  ELSE IF prev_marker = "f" THEN [s EXCEPT !.PS = INCOMPLETE]
  ELSE IF prev_marker = "F" THEN ResolveEndMajor(s)
  ELSE s

\* ------------------------------------------------------------- the classifier
\* GetPixValue reads m_image[m_xpix * ybin + xbin].  Through a null pointer or
\* past the caller's buffer the read is undefined: it faults ("segv") or
\* yields an arbitrary value ("stray").
Readable(xbin, ybin) == (m_xpix * ybin + xbin) \in DOMAIN m_image

GetPixValueNextCell(xbin, ybin) ==
  IF (m_xpix * ybin + xbin + 1) \in DOMAIN m_image
  THEN {m_image[m_xpix * ybin + xbin + 1]} ELSE Values

GetPixValue(xbin, ybin) ==
  IF Readable(xbin, ybin) THEN {m_image[m_xpix * ybin + xbin]} ELSE Values

AssessPixelNonStrict(value) == value >= m_threshold

AssessPixel(value) == value > m_threshold

\* ------------------------------------------------------------------ run()
init_membersKeepObjects ==
  IF m_xpix < 0
  THEN [MARKER |-> NoVec, PSSTACK |-> NoVec, START |-> NoVec, END |-> NoVec,
        INFO |-> NoVec, STORE |-> NoVec, Objects |-> m_Objects, thrown |-> TRUE]
  ELSE [MARKER |-> Vec(m_xpix + 1, NoMarker),
        PSSTACK |-> Vec(m_xpix, COMPLETE),
        START |-> Vec(m_xpix, UNSET),
        END |-> Vec(m_xpix, UNSET),
        INFO |-> Vec(m_xpix, <<>>),
        STORE |-> Vec(m_xpix, <<>>),
        Objects |-> m_Objects, thrown |-> FALSE]

init_members ==
  IF m_xpix < 0
  THEN [MARKER |-> NoVec, PSSTACK |-> NoVec, START |-> NoVec, END |-> NoVec,
        INFO |-> NoVec, STORE |-> NoVec, Objects |-> <<>>, thrown |-> TRUE]
  ELSE [MARKER |-> Vec(m_xpix + 1, NoMarker),
        PSSTACK |-> Vec(m_xpix, COMPLETE),
        START |-> Vec(m_xpix, UNSET),
        END |-> Vec(m_xpix, UNSET),
        INFO |-> Vec(m_xpix, <<>>),
        STORE |-> Vec(m_xpix, <<>>),
        Objects |-> <<>>, thrown |-> FALSE]

ColumnBodyKeepMarker(s, x, pixel, is_image_pixel) ==
  LET prev_marker == s.MARKER[x]
  IN
  IF is_image_pixel THEN
    LET s2 == IF s.CS = NONOBJECT THEN StartSegment(s, x) ELSE s
        s3 == Then(s2, LAMBDA t :
                IF prev_marker # NoMarker
                THEN ProcessNewMarker(t, prev_marker, x) ELSE t)
    IN Then(s3, LAMBDA t :
         Then(Touch(t, t.xpix, t.co), LAMBDA u :
           [u EXCEPT !.INFO[u.co] = Append(@, pixel)]))
  ELSE
    LET s2 == IF prev_marker # NoMarker
              THEN ProcessNewMarker(s, prev_marker, x) ELSE s
    IN Then(s2, LAMBDA t : IF t.CS = OBJECT THEN EndSegment(t, x) ELSE t)

\* One iteration of the column loop, lines 115-157.
ColumnBody(s, x, pixel, is_image_pixel) ==
  LET prev_marker == s.MARKER[x]
      s1 == [s EXCEPT !.MARKER[x] = NoMarker]
  IN
  IF is_image_pixel THEN
    LET s2 == IF s1.CS = NONOBJECT THEN StartSegment(s1, x) ELSE s1
        s3 == Then(s2, LAMBDA t :
                IF prev_marker # NoMarker
                THEN ProcessNewMarker(t, prev_marker, x) ELSE t)
    IN Then(s3, LAMBDA t :
         Then(Touch(t, t.xpix, t.co), LAMBDA u :
           [u EXCEPT !.INFO[u.co] = Append(@, pixel)]))
  ELSE
    LET s2 == IF prev_marker # NoMarker
              THEN ProcessNewMarker(s1, prev_marker, x) ELSE s1
    IN Then(s2, LAMBDA t : IF t.CS = OBJECT THEN EndSegment(t, x) ELSE t)

\* The synthetic trailing column, lines 160-171.
TrailingBodySkipMarker(s, x) ==
  LET s1 == [s EXCEPT !.MARKER[s.xpix] = NoMarker]
  IN IF s1.CS = OBJECT THEN EndSegment(s1, x) ELSE s1

TrailingBody(s, x) ==
  LET prev_marker == s.MARKER[s.xpix]
      s1 == [s EXCEPT !.MARKER[s.xpix] = NoMarker]
      s2 == IF prev_marker # NoMarker
            THEN ProcessNewMarker(s1, prev_marker, x) ELSE s1
  IN Then(s2, LAMBDA t : IF t.CS = OBJECT THEN EndSegment(t, x) ELSE t)

\* The members and locals after a step that produced record s.
Apply(s, nextpc) ==
  /\ m_MARKER' = s.MARKER
  /\ m_PSSTACK' = s.PSSTACK
  /\ m_START' = s.START
  /\ m_END' = s.END
  /\ m_INFO' = s.INFO
  /\ m_STORE' = s.STORE
  /\ m_Objects' = s.Objects
  /\ m_PS' = s.PS
  /\ m_CS' = s.CS
  /\ co' = s.co
  /\ pstop' = s.pstop
  /\ oob' = s.oob
  /\ pc' = IF s.fault THEN "segv" ELSE nextpc

\* run(), lines 99-101: reset, then the locals.
RunEntry ==
  LET m == init_members IN
  /\ m_MARKER' = m.MARKER
  /\ m_PSSTACK' = m.PSSTACK
  /\ m_START' = m.START
  /\ m_END' = m.END
  /\ m_INFO' = m.INFO
  /\ m_STORE' = m.STORE
  /\ m_Objects' = m.Objects
  /\ co' = 0
  /\ pstop' = 0
  /\ yindx' = 0
  /\ xindx' = 0
  /\ pc' = IF m.thrown THEN "throw" ELSE "row"
  /\ stale' = Len(m_Objects)
  /\ ret' = NoRet
  /\ oob' = FALSE
  /\ UNCHANGED <<cfgvars, m_PS, m_CS, objvars, peer>>

Run ==
  /\ pc = "idle"
  /\ RunEntry

\* Row loop head, lines 105-111.
RowBegin ==
  /\ pc = "row"
  /\ yindx < m_ypix
  /\ m_PS' = COMPLETE
  /\ m_CS' = NONOBJECT
  /\ xindx' = 0
  /\ pc' = "col"
  /\ UNCHANGED <<cfgvars, m_MARKER, m_PSSTACK, m_START, m_END, m_INFO,
                 m_STORE, m_Objects, co, pstop, yindx, oob, stale, ret, objvars, peer>>

\* Column loop body, lines 112-158.
ColumnStep ==
  /\ pc = "col"
  /\ xindx < m_xpix
  /\ \E ub \in UBOutcomes :
       IF ~Readable(xindx, yindx) /\ ub = "segv"
       THEN /\ pc' = "segv"
            /\ UNCHANGED <<memvars, co, pstop, xindx, oob>>
       ELSE \E value \in GetPixValue(xindx, yindx) :
              /\ Apply(ColumnBody(Cur(ub), xindx,
                                  pixData(xindx, yindx, value),
                                  AssessPixel(value)), "col")
              /\ xindx' = xindx + 1
  /\ UNCHANGED <<cfgvars, yindx, stale, ret, objvars, peer>>

\* After the column loop, lines 160-172.
TrailingStep ==
  /\ pc = "col"
  /\ xindx >= m_xpix
  /\ \E ub \in UBOutcomes : Apply(TrailingBody(Cur(ub), xindx), "row")
  /\ yindx' = yindx + 1
  /\ UNCHANGED <<cfgvars, xindx, stale, ret, objvars, peer>>

\* After the row loop, line 174; the loop counters end with run().
Flush ==
  /\ pc = "row"
  /\ yindx >= m_ypix
  /\ Apply(StoreClearance(Cur("segv")), "done")
  /\ xindx' = 0
  /\ yindx' = 0
  /\ UNCHANGED <<cfgvars, stale, ret, objvars, peer>>

\* --------------------------------------------------------- specifications
\* Grids of at most MaxSide columns and rows and at most MaxCells cells.
Dims == {d \in (1..MaxSide) \X (1..MaxSide) : d[1] * d[2] <= MaxCells}

\* A fresh instance from lutzOnePass(image, xpixels, ypixels).
Constructed(image, xpixels, ypixels) ==
  /\ m_image = image
  /\ m_xpix = xpixels
  /\ m_ypix = ypixels
  /\ m_threshold = DefaultThreshold
  /\ m_npixelmin = DefaultNPixelMin
  /\ m_MARKER = NoVec /\ m_PSSTACK = NoVec /\ m_START = NoVec
  /\ m_END = NoVec /\ m_INFO = NoVec /\ m_STORE = NoVec
  /\ m_Objects = <<>>
  /\ m_PS = UNINIT /\ m_CS = UNINIT
  /\ co = 0 /\ pstop = 0 /\ xindx = 0 /\ yindx = 0
  /\ pc = "idle" /\ oob = FALSE /\ stale = 0 /\ ret = NoRet
  /\ target = clear /\ cen = NoCall
  /\ peer = NoPeer

\* Fresh instances over the grids of sizes D with at most F foreground pixels.
GridInit(D, F) ==
  \E d \in D : \E image \in [0..(d[1] * d[2] - 1) -> Values] :
     /\ Cardinality({i \in DOMAIN image : image[i] > DefaultThreshold}) <= F
     /\ Constructed(image, d[1], d[2])

Init == GridInit(Dims, MaxCells)

Next == Run \/ RowBegin \/ ColumnStep \/ TrailingStep \/ Flush

Spec == Init /\ [][Next]_vars

\* Larger grids with few foreground pixels.
SparseDims == (1..SparseSide) \X (1..SparseSide)

InitSparse == GridInit(SparseDims, SparseFg)

SpecSparse == InitSparse /\ [][Next]_vars

\* Small grids whose samples take several values above the threshold, at
\* most one of them above the value clear() leaves in m_value_min.  Widths
\* start at 2, where the object slots stay inside their arrays.
Shades ==
  {DefaultThreshold, DefaultThreshold + 1, DefaultThreshold + 2,
   2 * ValueMinInit}

ShadeDims == {d \in (2..ShadeSide) \X (1..ShadeSide) : d[1] * d[2] <= ShadeCells}

InitShades ==
  \E d \in ShadeDims : \E image \in [0..(d[1] * d[2] - 1) -> Shades] :
     /\ Cardinality({i \in DOMAIN image : image[i] > ValueMinInit}) <= 1
     /\ Constructed(image, d[1], d[2])

SpecShades == InitShades /\ [][Next]_vars

\* ------------------------------------------------------------ the setters
Configurable == pc \in {"idle", "done", "throw"}

SetImage(image) ==
  /\ Configurable
  /\ m_image' = image
  /\ pc' = "idle"
  /\ ret' = NoRet
  /\ UNCHANGED <<m_xpix, m_ypix, m_threshold, m_npixelmin, memvars, co,
                 pstop, xindx, yindx, oob, stale, objvars, peer>>

SetXpixels(xpixels) ==
  /\ Configurable
  /\ m_xpix' = xpixels
  /\ pc' = "idle"
  /\ ret' = NoRet
  /\ UNCHANGED <<m_image, m_ypix, m_threshold, m_npixelmin, memvars, co,
                 pstop, xindx, yindx, oob, stale, objvars, peer>>

SetYpixels(ypixels) ==
  /\ Configurable
  /\ m_ypix' = ypixels
  /\ pc' = "idle"
  /\ ret' = NoRet
  /\ UNCHANGED <<m_image, m_xpix, m_threshold, m_npixelmin, memvars, co,
                 pstop, xindx, yindx, oob, stale, objvars, peer>>

SetNPixelMin(npixelmin) ==
  /\ Configurable
  /\ m_npixelmin' = npixelmin
  /\ pc' = "idle"
  /\ ret' = NoRet
  /\ UNCHANGED <<m_image, m_xpix, m_ypix, m_threshold, memvars, co,
                 pstop, xindx, yindx, oob, stale, objvars, peer>>

\* --------------------------------------------------- minimum-size filtering
MinDims == {d \in (1..MinSide) \X (1..MinSide) : d[1] * d[2] <= MinCells}

InitMin == GridInit(MinDims, MinFg)

NextMin ==
  \/ \E n \in 0..MinFg : pc = "idle" /\ SetNPixelMin(n)
  \/ Run \/ RowBegin \/ ColumnStep \/ TrailingStep \/ Flush

SpecMin == InitMin /\ [][NextMin]_vars

\* ------------------------------------------------ negative minimum sizes
\* Grids scanned after SetNPixelMin with a minimum that is 0 or negative.
SignedDims ==
  {d \in (1..SignedSide) \X (1..SignedSide) : d[1] * d[2] <= SignedCells}

InitSigned == GridInit(SignedDims, SignedCells)

NextSigned ==
  \/ \E n \in (-MaxNegative)..0 : pc = "idle" /\ SetNPixelMin(n)
  \/ Run \/ RowBegin \/ ColumnStep \/ TrailingStep \/ Flush

SpecSigned == InitSigned /\ [][NextSigned]_vars

\* ------------------------------------------------------- the whole interface
\* What a caller may configure: sizes from -1 to ApiSide, a null image or a
\* buffer of up to ApiCells samples.
ApiSizes == (-1)..ApiSide

ApiImages ==
  {NULL} \cup UNION {[0..(n - 1) -> Values] : n \in 1..ApiCells}

\* The caller hands over width*height samples, unless the configuration has
\* no grid at all.
BadConfig == m_xpix <= 0 \/ m_ypix <= 0 \/ m_image = NULL

CallerContract == BadConfig \/ DOMAIN m_image = 0..(m_xpix * m_ypix - 1)

\* The scans of this specification cover at most ApiCells cells.
ScanBounded == m_xpix <= 0 \/ m_ypix <= 0 \/ m_xpix * m_ypix <= ApiCells

RunAgain ==
  /\ Configurable
  /\ CallerContract
  /\ ScanBounded
  /\ RunEntry

\* What copying a lutzObject from outside the vector can yield.
GarbageObjects == {clear, appendAll(clear, <<pixData(0, 0, DefaultThreshold)>>)}

\* GetObject(obj_id), lines 182-185: m_Objects[obj_id], unchecked.
GetObject(obj_id) ==
  /\ pc \in {"idle", "done"}
  /\ IF 0 <= obj_id /\ obj_id < Len(m_Objects)
     THEN /\ ret' = [call |-> "GetObject", index |-> obj_id,
                     kind |-> "object", object |-> m_Objects[obj_id + 1]]
          /\ pc' = pc
     ELSE \E ub \in UBOutcomes :
            IF ub = "segv"
            THEN /\ ret' = [call |-> "GetObject", index |-> obj_id,
                            kind |-> "segv"]
                 /\ pc' = "segv"
            ELSE /\ \E g \in GarbageObjects :
                      ret' = [call |-> "GetObject", index |-> obj_id,
                              kind |-> "object", object |-> g]
                 /\ pc' = pc
  /\ UNCHANGED <<cfgvars, memvars, co, pstop, xindx, yindx, oob, stale, objvars, peer>>

NumObjects == Len(m_Objects)

\* A default-constructed instance, lines 60-66.
InitApi == Constructed(NULL, 0, 0)

NextApi ==
  \/ \E image \in ApiImages : SetImage(image)
  \/ \E n \in ApiSizes : SetXpixels(n)
  \/ \E n \in ApiSizes : SetYpixels(n)
  \/ RunAgain \/ RowBegin \/ ColumnStep \/ TrailingStep \/ Flush
  \/ \E i \in (-1)..NumObjects : GetObject(i)

SpecApi == InitApi /\ [][NextApi]_vars

\* ------------------------------------------------ a second labeler instance
\* A second lutzOnePass object of the same process, held as one record: its
\* configuration, its members and the locals of its run().
NewInstance(image, xpixels, ypixels) ==
  [image |-> image, xpix |-> xpixels, ypix |-> ypixels,
   threshold |-> DefaultThreshold, npixelmin |-> DefaultNPixelMin,
   MARKER |-> NoVec, PSSTACK |-> NoVec, START |-> NoVec, END |-> NoVec,
   INFO |-> NoVec, STORE |-> NoVec, Objects |-> <<>>,
   PS |-> UNINIT, CS |-> UNINIT, co |-> 0, pstop |-> 0,
   xindx |-> 0, yindx |-> 0, pc |-> "idle", oob |-> FALSE]

\* The members and locals of instance i, with the outcome `ub` of this step.
MembersOfSharedCo(i, ub) ==
  [xpix |-> i.xpix, npixelmin |-> i.npixelmin, ub |-> ub,
   MARKER |-> i.MARKER, PSSTACK |-> i.PSSTACK, START |-> i.START,
   END |-> i.END, INFO |-> i.INFO, STORE |-> i.STORE, Objects |-> i.Objects,
   PS |-> i.PS, CS |-> i.CS, co |-> co, pstop |-> i.pstop,
   fault |-> FALSE, oob |-> i.oob]

MembersOf(i, ub) ==
  [xpix |-> i.xpix, npixelmin |-> i.npixelmin, ub |-> ub,
   MARKER |-> i.MARKER, PSSTACK |-> i.PSSTACK, START |-> i.START,
   END |-> i.END, INFO |-> i.INFO, STORE |-> i.STORE, Objects |-> i.Objects,
   PS |-> i.PS, CS |-> i.CS, co |-> i.co, pstop |-> i.pstop,
   fault |-> FALSE, oob |-> i.oob]

\* Instance i after a step that produced record s.
Applied(i, s, nextpc) ==
  [i EXCEPT !.MARKER = s.MARKER, !.PSSTACK = s.PSSTACK, !.START = s.START,
            !.END = s.END, !.INFO = s.INFO, !.STORE = s.STORE,
            !.Objects = s.Objects, !.PS = s.PS, !.CS = s.CS,
            !.co = s.co, !.pstop = s.pstop, !.oob = s.oob,
            !.pc = IF s.fault THEN "segv" ELSE nextpc]

\* run() of instance i, lines 99-101.
InstanceEntry(i) ==
  IF i.xpix < 0 THEN [i EXCEPT !.Objects = <<>>, !.pc = "throw"]
  ELSE [i EXCEPT !.MARKER = Vec(i.xpix + 1, NoMarker),
                 !.PSSTACK = Vec(i.xpix, COMPLETE),
                 !.START = Vec(i.xpix, UNSET), !.END = Vec(i.xpix, UNSET),
                 !.INFO = Vec(i.xpix, <<>>), !.STORE = Vec(i.xpix, <<>>),
                 !.Objects = <<>>, !.co = 0, !.pstop = 0,
                 !.xindx = 0, !.yindx = 0, !.oob = FALSE, !.pc = "row"]

\* One iteration of the column loop of instance i, lines 112-158.
InstanceColumn(i) ==
  LET bin == i.xpix * i.yindx + i.xindx
      readable == bin \in DOMAIN i.image
  IN UNION {
       IF ~readable /\ ub = "segv" THEN {[i EXCEPT !.pc = "segv"]}
       ELSE {[Applied(i, ColumnBody(MembersOf(i, ub), i.xindx,
                                    pixData(i.xindx, i.yindx, value),
                                    value > i.threshold), "col")
                EXCEPT !.xindx = @ + 1] :
               value \in IF readable THEN {i.image[bin]} ELSE Values} :
       ub \in UBOutcomes}

\* The steps run() of instance i can take next, lines 97-175.
InstanceSteps(i) ==
  CASE i.pc = "idle" -> {InstanceEntry(i)}
    [] i.pc = "row" /\ i.yindx < i.ypix ->
         {[i EXCEPT !.PS = COMPLETE, !.CS = NONOBJECT, !.xindx = 0,
                    !.pc = "col"]}
    [] i.pc = "row" /\ i.yindx >= i.ypix ->
         {[Applied(i, StoreClearance(MembersOf(i, "segv")), "done")
             EXCEPT !.xindx = 0, !.yindx = 0]}
    [] i.pc = "col" /\ i.xindx < i.xpix -> InstanceColumn(i)
    [] i.pc = "col" /\ i.xindx >= i.xpix ->
         {[Applied(i, TrailingBody(MembersOf(i, ub), i.xindx), "row")
             EXCEPT !.yindx = @ + 1] : ub \in UBOutcomes}
    [] OTHER -> {}

\* lutzOnePass(image, xpixels, ypixels) for the second instance, lines 76-83.
ConstructPeer(image, xpixels, ypixels) ==
  /\ peer = NoPeer
  /\ DOMAIN image = 0..(xpixels * ypixels - 1)
  /\ peer' = NewInstance(image, xpixels, ypixels)
  /\ UNCHANGED <<cfgvars, memvars, co, pstop, xindx, yindx, pc, oob, stale,
                 ret, objvars>>

\* A fault in either run() ends the process both instances live in.
ProcessAlive == pc # "segv" /\ peer.pc # "segv"

\* One step of the second instance's run().
PeerStep ==
  /\ peer # NoPeer
  /\ ProcessAlive
  /\ peer' \in InstanceSteps(peer)
  /\ UNCHANGED <<cfgvars, memvars, co, pstop, xindx, yindx, pc, oob, stale,
                 ret, objvars>>

\* One step of the first instance's run().
OwnStep ==
  /\ ProcessAlive
  /\ (Run \/ RowBegin \/ ColumnStep \/ TrailingStep \/ Flush)

PairDims == {d \in (1..PairSide) \X (1..PairSide) : d[1] * d[2] <= PairCells}

PairImages == UNION {[0..(n - 1) -> Values] : n \in 1..PairCells}

InitPair == GridInit(PairDims, PairCells)

NextPair ==
  \/ \E d \in PairDims : \E image \in PairImages :
        ConstructPeer(image, d[1], d[2])
  \/ OwnStep
  \/ PeerStep

SpecPair == InitPair /\ [][NextPair]_vars

\* ------------------------------------------------- a lutzObject on its own
\* Everything of the labeler: the calls on a lutzObject leave it alone.
runvars == <<cfgvars, memvars, co, pstop, xindx, yindx, pc, oob, stale, peer>>

\* Pixels a caller may hand over: positions 0..ObjSide, as the constructor
\* makes them (scale 1) or with another value and a scale set through the
\* public field.
ObjPixels ==
  {[m_xbin |-> x, m_ybin |-> y, m_value |-> DefaultThreshold + k, m_scale |-> k] :
     x \in 0..ObjSide, y \in 0..ObjSide, k \in {1, 2}}

\* The caller is between two calls.
ObjIdle == cen.at \in {"none", "returned"}

CallAppend(pixel) ==
  /\ ObjIdle
  /\ Len(target.m_pixInfo) < MaxPixels \/ contains(target, pixel)
  /\ target' = append(target, pixel)
  /\ ret' = [call |-> "append", pixel |-> pixel, before |-> target]
  /\ cen' = NoCall
  /\ UNCHANGED runvars

CallRemove(index) ==
  /\ ObjIdle
  /\ 0 <= index /\ index < Len(target.m_pixInfo)
  /\ target' = remove(target, index)
  /\ ret' = [call |-> "remove", index |-> index]
  /\ cen' = NoCall
  /\ UNCHANGED runvars

CallClear ==
  /\ ObjIdle
  /\ target' = clear
  /\ ret' = [call |-> "clear"]
  /\ cen' = NoCall
  /\ UNCHANGED runvars

InitObject == Constructed(NULL, 0, 0)

NextObject ==
  \/ \E pixel \in ObjPixels : CallAppend(pixel)
  \/ \E index \in 0..(MaxPixels - 1) : CallRemove(index)
  \/ CallClear

SpecObject == InitObject /\ [][NextObject]_vars

\* ------------------------------------------------------ double arithmetic
\* A double is modelled by a binary floating-point number of MantissaBits
\* significant bits, held as a count of units of 2^-FracBits; every
\* operation rounds its exact result to nearest, ties to even.
Unit == 2 ^ FracBits

BitLen(n) == CHOOSE k \in 0..31 : (k = 0 \/ 2 ^ (k - 1) <= n) /\ n < 2 ^ k

\* a/b rounded to an integer, ties to even.
RoundDiv(a, b) ==
  LET q == a \div b
      r == a % b
  IN IF 2 * r < b THEN q
     ELSE IF 2 * r > b THEN q + 1
     ELSE IF q % 2 = 0 THEN q ELSE q + 1

\* The double nearest to a/b units.
Fl(a, b) ==
  LET k == BitLen(a \div b)
      s == IF k > MantissaBits THEN 2 ^ (k - MantissaBits) ELSE 1
  IN s * RoundDiv(a, b * s)

FromInt(n) == Fl(n * Unit, 1)
FAdd(x, y) == Fl(x + y, 1)
FMul(x, y) == Fl(x * y, Unit)
FDiv(x, y) == Fl(x * Unit, y)

\* ------------------------------------------------------ lutzObject::centroid
\* The loop of lines 163-173 over the pixels from index p on.
RECURSIVE CentroidSumsPlainY(_, _, _, _)
CentroidSumsPlainY(pixels, weight_bins, p, acc) ==
  IF p > Len(pixels) THEN acc
  ELSE LET scale == FromInt(pixels[p].m_scale)
           weight == IF weight_bins
                     THEN FMul(scale, FromInt(pixels[p].m_value)) ELSE scale
       IN CentroidSumsPlainY(pixels, weight_bins, p + 1,
            [xcenter |-> FAdd(acc.xcenter,
                              FMul(weight, FromInt(pixels[p].m_xbin))),
             ycenter |-> FAdd(acc.ycenter,
                              FMul(scale, FromInt(pixels[p].m_ybin))),
             weight_sum |-> FAdd(acc.weight_sum, weight)])

RECURSIVE CentroidSums(_, _, _, _)
CentroidSums(pixels, weight_bins, p, acc) ==
  IF p > Len(pixels) THEN acc
  ELSE LET scale == FromInt(pixels[p].m_scale)
           weight == IF weight_bins
                     THEN FMul(scale, FromInt(pixels[p].m_value)) ELSE scale
       IN CentroidSums(pixels, weight_bins, p + 1,
            [xcenter |-> FAdd(acc.xcenter,
                              FMul(weight, FromInt(pixels[p].m_xbin))),
             ycenter |-> FAdd(acc.ycenter,
                              FMul(weight, FromInt(pixels[p].m_ybin))),
             weight_sum |-> FAdd(acc.weight_sum, weight)])

\* The caller asks for the centroid, lines 154-160.
CentroidCall(weight_bins) ==
  /\ ObjIdle
  /\ cen' = [at |-> "body", weight_bins |-> weight_bins,
             asked |-> weight_bins, entries |-> 1]
  /\ ret' = NoRet
  /\ UNCHANGED <<runvars, target>>

\* One pass through the body, lines 158-186: the sums, then either the
\* division and the return, or the call of centroid(xcenter, ycenter, false).
\* A call chain that never ends exhausts the stack, or loops for ever where
\* the compiler made the tail call a jump: after MaxEntries passes it is taken
\* as never returning.
CentroidBody ==
  /\ cen.at = "body"
  /\ LET sums == CentroidSums(target.m_pixInfo, cen.weight_bins, 1,
                              [xcenter |-> 0, ycenter |-> 0, weight_sum |-> 0])
     IN IF sums.weight_sum > 0
        THEN cen' = [at |-> "returned", asked |-> cen.asked,
                     entries |-> cen.entries,
                     xcenter |-> FDiv(sums.xcenter, sums.weight_sum),
                     ycenter |-> FDiv(sums.ycenter, sums.weight_sum)]
        ELSE IF cen.entries < MaxEntries
        THEN cen' = [cen EXCEPT !.weight_bins = FALSE, !.entries = @ + 1]
        ELSE cen' = [at |-> "diverged", asked |-> cen.asked]
  /\ UNCHANGED <<runvars, target, ret>>

\* append(std::vector<pixData>&) on an empty object, lines 96-102.
CallAppendAll(pixels) ==
  /\ ObjIdle
  /\ target.m_pixInfo = <<>>
  /\ target' = appendAll(target, pixels)
  /\ ret' = [call |-> "append"]
  /\ cen' = NoCall
  /\ UNCHANGED runvars

\* A w-by-h block of pixels of value v from (x0, y0), row by row.
BlockPixels(x0, y0, w, h, v) ==
  [i \in 1..(w * h) |-> pixData(x0 + ((i - 1) % w), y0 + ((i - 1) \div w), v)]

CenValues == {1, 2, 3, 4, 5}

\* Uniform blocks, uniform blocks short of their last pixel, and pixels
\* whose weight is zero: by their value, or by a scale set to zero.
CenPixelLists ==
  LET blocks == {BlockPixels(x0, y0, w, h, v) :
                   x0 \in 0..CenOffset, y0 \in 0..CenOffset,
                   w \in 1..CenSide, h \in 1..CenSide, v \in CenValues}
  IN blocks
     \cup {SubSeq(b, 1, Len(b) - 1) : b \in {c \in blocks : Len(c) >= 2}}
     \cup {<<pixData(1, 1, 0)>>, <<pixData(0, 1, 0), pixData(1, 0, 0)>>,
           <<[pixData(1, 1, 1) EXCEPT !.m_scale = 0]>>}

NextCentroid ==
  \/ \E pixels \in CenPixelLists : CallAppendAll(pixels)
  \/ CallClear
  \/ \E weight_bins \in BOOLEAN : CentroidCall(weight_bins)
  \/ CentroidBody

SpecCentroid == InitObject /\ [][NextCentroid]_vars

\* ------------------------------------------------- reference: the grid itself
Cells == {c \in (0..(m_xpix - 1)) \X (0..(m_ypix - 1)) : TRUE}

\* Foreground pixels of a well-formed grid.
Foreground ==
  {c \in Cells : (m_xpix * c[2] + c[1]) \in DOMAIN m_image
                 /\ m_image[m_xpix * c[2] + c[1]] > m_threshold}

Abs(n) == IF n < 0 THEN -n ELSE n

Adj8(p, q) == p # q /\ Abs(p[1] - q[1]) <= 1 /\ Abs(p[2] - q[2]) <= 1

\* The pixels of F joined to S by chains of 8-adjacent pixels of F.
RECURSIVE Grow(_, _)
Grow(S, F) ==
  LET N == {q \in F \ S : \E p \in S : Adj8(p, q)}
  IN IF N = {} THEN S ELSE Grow(S \cup N, F)

ComponentOf(p, F) == Grow({p}, F)

Components(F) == {ComponentOf(p, F) : p \in F}

\* Pixel positions of an emitted object.
PixSet(obj) ==
  {<<obj.m_pixInfo[i].m_xbin, obj.m_pixInfo[i].m_ybin>> :
     i \in 1..Len(obj.m_pixInfo)}

Emitted == {PixSet(m_Objects[i]) : i \in 1..Len(m_Objects)}

ObjectsHolding(p) == {i \in 1..Len(m_Objects) : p \in PixSet(m_Objects[i])}

Returned == pc = "done"

\* ------------------------------------------------------------------ claims

\* C1: with minimum size 0, after run() every foreground pixel is in exactly
\* one emitted object, and two foreground pixels share an emitted object
\* exactly when a chain of 8-adjacent foreground pixels joins them.
C1_ObjectsAreComponents ==
  (Returned /\ m_npixelmin = 0) =>
     /\ \A p \in Foreground : Cardinality(ObjectsHolding(p)) = 1
     /\ \A p \in Foreground : \A q \in Foreground :
          (ObjectsHolding(p) \cap ObjectsHolding(q) # {})
             <=> (q \in ComponentOf(p, Foreground))

\* C2: after run() no pixel position belongs to two distinct emitted objects.
C2_NoSharedPixel ==
  Returned =>
     \A i \in 1..Len(m_Objects) : \A j \in 1..Len(m_Objects) :
        i # j => PixSet(m_Objects[i]) \cap PixSet(m_Objects[j]) = {}

\* C2 witness: a run has returned two objects, one of which went through
\* STORE on its way from one row to the next.
C2_Witness ==
  /\ Returned
  /\ Len(m_Objects) >= 2
  /\ \E i \in 1..Len(m_Objects) :
        m_Objects[i].m_ymin < m_Objects[i].m_ymax


\* C3: the pixel set of every emitted object is internally 8-connected.
C3_ObjectsConnected ==
  Returned =>
     \A i \in 1..Len(m_Objects) :
        \A p \in PixSet(m_Objects[i]) : \A q \in PixSet(m_Objects[i]) :
           q \in ComponentOf(p, PixSet(m_Objects[i]))

\* A U: bars in columns a and b down to row r - 1, joined by row r.
UShape(a, b, tl, tr, r) ==
  {<<a, y>> : y \in tl..(r - 1)} \cup {<<b, y>> : y \in tr..(r - 1)}
     \cup {<<x, r>> : x \in a..b}

IsUShape ==
  \E a \in 0..(m_xpix - 1) : \E b \in (a + 2)..(m_xpix - 1) :
    \E r \in 1..(m_ypix - 1) : \E tl \in 0..(r - 1) : \E tr \in 0..(r - 1) :
       Foreground = UShape(a, b, tl, tr, r)

\* C4: a U-shaped foreground yields exactly one object, holding both bars and
\* the joining row.
C4_UShapeOneObject ==
  (Returned /\ IsUShape) =>
     /\ Len(m_Objects) = 1
     /\ PixSet(m_Objects[1]) = Foreground

\* C4 witness: the run over a U has returned.
C4_Witness == Returned /\ IsUShape /\ Len(m_Objects) = 1

RowEmpty(r) == \A c \in Foreground : c[2] # r
ColEmpty(x) == \A c \in Foreground : c[1] # x

\* Two blobs with a full background row or column between them.
TwoSeparatedBlobs ==
  /\ Cardinality(Components(Foreground)) = 2
  /\ \/ \E r \in 0..(m_ypix - 1) :
          /\ RowEmpty(r)
          /\ \E c \in Foreground : c[2] < r
          /\ \E c \in Foreground : c[2] > r
     \/ \E x \in 0..(m_xpix - 1) :
          /\ ColEmpty(x)
          /\ \E c \in Foreground : c[1] < x
          /\ \E c \in Foreground : c[1] > x

\* C5: for two separated blobs, run() with minimum size 0 emits exactly two
\* objects: the run ends, it ends by returning, and the list then holds two.
C5_TwoBlobsTwoObjects ==
  (pc \in {"done", "segv"} /\ m_npixelmin = 0 /\ TwoSeparatedBlobs) =>
     (Returned /\ Len(m_Objects) = 2)

TouchesBorder(comp) ==
  \E c \in comp : \/ c[1] = 0 \/ c[2] = 0
                  \/ c[1] = m_xpix - 1 \/ c[2] = m_ypix - 1

\* C7: with minimum size 0, when run() has returned every component touching
\* the border of the grid is among the emitted objects, and no pixel is left
\* in a STORE slot or in a live INFO slot.
C7_BorderComponentsEmitted ==
  (Returned /\ m_npixelmin = 0) =>
     /\ \A comp \in Components(Foreground) :
          TouchesBorder(comp) => comp \in Emitted
     /\ \A i \in 0..(m_xpix - 1) : m_STORE[i] = <<>>
     /\ \A k \in 1..co : m_INFO[k] = <<>>


\* C6: with minimum size m, after run() no part of a component of fewer than
\* m pixels is among the objects, and every component of exactly m >= 1
\* pixels is, with all its pixels.
C6_MinimumSizeFilter ==
  Returned =>
     \A comp \in Components(Foreground) :
        /\ Cardinality(comp) < m_npixelmin =>
             \A o \in Emitted : o \cap comp = {}
        /\ (m_npixelmin >= 1 /\ Cardinality(comp) = m_npixelmin) =>
             comp \in Emitted

\* ------------------------------------------- reference: a run from scratch
\* The scan of the configured grid by an instance that has never run,
\* row by row from column x of row y; stray accesses land in the slack.
RECURSIVE ScanFrom(_, _, _)
ScanFrom(s, x, y) ==
  IF s.fault THEN s
  ELSE IF y >= m_ypix THEN StoreClearance(s)
  ELSE IF x >= m_xpix THEN ScanFrom(TrailingBody(s, x), 0, y + 1)
  ELSE LET s0 == IF x = 0 THEN [s EXCEPT !.PS = COMPLETE, !.CS = NONOBJECT]
                 ELSE s
           value == m_image[m_xpix * y + x]
       IN ScanFrom(ColumnBody(s0, x, pixData(x, y, value), AssessPixel(value)),
                   x + 1, y)

FreshMembers ==
  [xpix |-> m_xpix, npixelmin |-> m_npixelmin, ub |-> "stray",
   MARKER |-> Vec(m_xpix + 1, NoMarker), PSSTACK |-> Vec(m_xpix, COMPLETE),
   START |-> Vec(m_xpix, UNSET), END |-> Vec(m_xpix, UNSET),
   INFO |-> Vec(m_xpix, <<>>), STORE |-> Vec(m_xpix, <<>>),
   Objects |-> <<>>, PS |-> UNINIT, CS |-> UNINIT, co |-> 0, pstop |-> 0,
   fault |-> FALSE, oob |-> FALSE]

FreshRun == ScanFrom(FreshMembers, 0, 0)

AtRunEntry == pc = "row" /\ yindx = 0

\* C8: run() starts from a clean slate.  On entry nothing of an earlier run
\* is left in the result list, the marker row, the stacks or the buffers, and
\* what run() returns for a grid is what an instance that never ran returns
\* for it, whatever the instance ran or was configured with before.
C8_RerunIsFresh ==
  /\ AtRunEntry =>
       /\ m_Objects = <<>> /\ co = 0 /\ pstop = 0
       /\ m_MARKER = FreshMembers.MARKER /\ m_PSSTACK = FreshMembers.PSSTACK
       /\ m_START = FreshMembers.START /\ m_END = FreshMembers.END
       /\ m_INFO = FreshMembers.INFO /\ m_STORE = FreshMembers.STORE
  /\ (Returned /\ ~BadConfig) => m_Objects = FreshRun.Objects

\* C8 witness: a run entered on an instance that still held objects of an
\* earlier run has returned, with objects of its own.
C8_Witness == Returned /\ ~BadConfig /\ stale > 0 /\ Len(m_Objects) > 0

\* C9: with a width or height that is not positive, or a null image, run()
\* stops with an error before it scans: it enters no row, reads no pixel and
\* does not return normally.
C9_BadConfigRejected == BadConfig => pc \notin {"col", "done", "segv"}

\* C10: GetObject(index) is checked against NumObjects(): out of range it
\* reports an index error, in range it returns that object.
C10_GetObjectChecked ==
  ret.call = "GetObject" =>
     IF 0 <= ret.index /\ ret.index < NumObjects
     THEN ret.kind = "object" /\ ret.object = m_Objects[ret.index + 1]
     ELSE ret.kind = "IndexError"

\* The sample of the grid at column x of row y, row-major.
Sample(x, y) == m_image[m_xpix * y + x]

\* C11: a cell is foreground exactly when its value is strictly above the
\* threshold, the value being the sample at index width*row + col: after the
\* step for a column, CS is in-object exactly when that column's sample is
\* above the threshold, and every pixel of an emitted object carries the
\* sample of its own cell, which is above the threshold.
C11_StrictThreshold ==
  /\ (pc = "col" /\ xindx > 0 /\ xindx <= m_xpix) =>
        (m_CS = OBJECT <=> Sample(xindx - 1, yindx) > m_threshold)
  /\ \A i \in 1..Len(m_Objects) :
        \A k \in 1..Len(m_Objects[i].m_pixInfo) :
           LET p == m_Objects[i].m_pixInfo[k] IN
           /\ p.m_value = Sample(p.m_xbin, p.m_ybin)
           /\ p.m_value > m_threshold

\* C11 witness: a run over a grid of several rows and columns has returned
\* an object holding an off-diagonal pixel whose mirror cell equals the
\* threshold.
C11_Witness ==
  /\ Returned
  /\ \E o \in Emitted : \E c \in o :
        /\ c[1] # c[2]
        /\ <<c[2], c[1]>> \in Cells
        /\ Sample(c[2], c[1]) = m_threshold

MinOf(S) == CHOOSE m \in S : \A n \in S : m <= n
MaxOf(S) == CHOOSE m \in S : \A n \in S : m >= n

RECURSIVE SumOfValues(_)
SumOfValues(pixels) ==
  IF pixels = <<>> THEN 0
  ELSE Head(pixels).m_value + SumOfValues(Tail(pixels))

\* The summary fields of obj are the aggregates over its stored pixels.
SummaryMatches(obj) ==
  LET P == obj.m_pixInfo
      I == 1..Len(P)
  IN /\ obj.m_xmin = MinOf({P[k].m_xbin : k \in I})
     /\ obj.m_xmax = MaxOf({P[k].m_xbin : k \in I})
     /\ obj.m_ymin = MinOf({P[k].m_ybin : k \in I})
     /\ obj.m_ymax = MaxOf({P[k].m_ybin : k \in I})
     /\ obj.m_value_min = MinOf({P[k].m_value : k \in I})
     /\ obj.m_value_max = MaxOf({P[k].m_value : k \in I})
     /\ obj.m_value_sum = SumOfValues(P)

\* C12: for every object emitted by run(), the bounding box is the minimum
\* and maximum column and row of its stored pixels, the sum is the sum of
\* their values and the value range is their minimum and maximum value.
C12_EmittedSummaries ==
  \A i \in 1..Len(m_Objects) :
     /\ m_Objects[i].m_pixInfo # <<>>
     /\ SummaryMatches(m_Objects[i])

\* C13: after any sequence of append, remove and clear calls that leaves the
\* object non-empty, its summary fields are the aggregates over the pixels
\* it still holds.
C13_SummariesFollowPixels ==
  target.m_pixInfo # <<>> => SummaryMatches(target)

\* C14: appending a pixel whose position the object already holds changes
\* nothing of the object, whatever value and scale the pixel carries.
C14_DuplicateAppendNoOp ==
  (ret.call = "append" /\ contains(ret.before, ret.pixel)) =>
     target = ret.before

\* C14 witness: the last call appended, at a position already held, a pixel
\* of another value and another scale.
C14_Witness ==
  /\ ret.call = "append"
  /\ \E k \in 1..Len(ret.before.m_pixInfo) :
        LET q == ret.before.m_pixInfo[k] IN
        /\ q.m_xbin = ret.pixel.m_xbin /\ q.m_ybin = ret.pixel.m_ybin
        /\ q.m_value # ret.pixel.m_value /\ q.m_scale # ret.pixel.m_scale
  /\ Len(target.m_pixInfo) >= 2

\* C15: centroid returns on every object: it falls back to the unweighted
\* computation at most once, so the body is entered at most twice and the call
\* never goes on without end.
C15_CentroidReturns ==
  /\ cen.at # "diverged"
  /\ cen.at = "body" => cen.entries <= 2

\* The pixels of obj all carry value v and scale 1.
Uniform(obj, v) ==
  /\ obj.m_pixInfo # <<>>
  /\ \A k \in 1..Len(obj.m_pixInfo) :
        obj.m_pixInfo[k].m_value = v /\ obj.m_pixInfo[k].m_scale = 1

RECURSIVE SumOfBins(_, _)
SumOfBins(pixels, axis) ==
  IF pixels = <<>> THEN 0
  ELSE (IF axis = "x" THEN Head(pixels).m_xbin ELSE Head(pixels).m_ybin)
       + SumOfBins(Tail(pixels), axis)

\* The mean of the pixel columns or rows, as the nearest double.
MeanOfBins(obj, axis) ==
  Fl(SumOfBins(obj.m_pixInfo, axis) * Unit, Len(obj.m_pixInfo))

\* obj fills its bounding box.
IsBlock(obj) ==
  Len(obj.m_pixInfo) =
     (obj.m_xmax - obj.m_xmin + 1) * (obj.m_ymax - obj.m_ymin + 1)

\* The centroid returned is the mean column and the mean row and, for a
\* block, the centre of its bounding box.
CentroidIsMean ==
  /\ cen.xcenter = MeanOfBins(target, "x")
  /\ cen.ycenter = MeanOfBins(target, "y")
  /\ IsBlock(target) =>
        /\ 2 * cen.xcenter = (target.m_xmin + target.m_xmax) * Unit
        /\ 2 * cen.ycenter = (target.m_ymin + target.m_ymax) * Unit

Ended(i) == i.pc \in {"done", "segv", "throw"}

\* The ends run() of instance i can come to when nothing else is running.
RECURSIVE RunsAlone(_)
RunsAlone(S) ==
  IF \A i \in S : Ended(i) THEN S
  ELSE RunsAlone(UNION {IF Ended(i) THEN {i} ELSE InstanceSteps(i) : i \in S})

\* The object lists a fresh instance over this grid returns when run alone.
AloneObjects(image, xpixels, ypixels) ==
  {i.Objects : i \in {j \in RunsAlone({NewInstance(image, xpixels, ypixels)}) :
                         j.pc = "done"}}

\* C17: two instances share no state: however the steps of their runs are
\* interleaved, what each has emitted when its run returns is what an
\* instance over the same grid emits when run alone.
C17_InstancesIndependent ==
  /\ (peer # NoPeer /\ pc = "done") =>
        m_Objects \in AloneObjects(m_image, m_xpix, m_ypix)
  /\ peer.pc = "done" =>
        peer.Objects \in AloneObjects(peer.image, peer.xpix, peer.ypix)

\* C17 witness: the second instance has run from start to return, with
\* objects, while the first was in its second row with a fragment open.
C17_Witness ==
  /\ peer.pc = "done" /\ Len(peer.Objects) > 0
  /\ pc = "col" /\ yindx = 1 /\ co > 0 /\ m_xpix > 1

\* C18: when co or pstop leaves the index range of its arrays, run() stops
\* at that step with an error raised to the caller: no state in which an
\* out-of-range index has been used belongs to a scan that goes on, has
\* returned, or was ended by the memory fault instead.
C18_StackFaultAborts == oob => pc = "throw"

\* C19: for every grid of width and height at least 1, no step of run() uses
\* an index outside its vector, and co and pstop are never negative.
C19_IndicesInRange ==
  (m_xpix >= 1 /\ m_ypix >= 1) => (~oob /\ co >= 0 /\ pstop >= 0)

\* The scan state on which ProcessNewMarker is called for column xindx
\* (lines 115-142): the old marker is erased and, for a pixel above the
\* threshold outside a segment, the segment has been started.
BeforeMarker(ub) ==
  LET s1 == [Cur(ub) EXCEPT !.MARKER[xindx] = NoMarker] IN
  IF AssessPixel(m_image[m_xpix * yindx + xindx]) /\ m_CS = NONOBJECT
  THEN StartSegment(s1, xindx) ELSE s1

PixelsOf(info) == {info[n] : n \in DOMAIN info}

\* C20: when marker 's' is resolved with an open segment in the current row
\* and PS complete, one saved status is popped, co goes down by one, PS
\* becomes in-object and every pixel held by the slot that is given up is
\* held afterwards by the slot that survives.
C20_ForkRejoinKeepsPixels ==
  (/\ pc = "col" /\ xindx < m_xpix /\ ~oob
   /\ Readable(xindx, yindx) /\ m_MARKER[xindx] = "s")
  => \A ub \in UBOutcomes :
       LET pre == BeforeMarker(ub)
           post == ResolveStartMinor(pre)
       IN (~pre.fault /\ ~pre.oob /\ pre.CS = OBJECT /\ pre.PS = COMPLETE
           /\ pre.co >= 1)
          => /\ ~post.fault
             /\ post.pstop = pre.pstop - 1
             /\ post.co = pre.co - 1
             /\ post.PS = OBJECT
             /\ PixelsOf(pre.INFO[pre.co]) \subseteq PixelsOf(post.INFO[post.co])

\* Foreground pixels the scan has not reached yet.
Unscanned ==
  {c \in Foreground : c[2] > yindx \/ (c[2] = yindx /\ pc = "col" /\ c[1] >= xindx)}

\* C21: during the scan the result list grows only in a step that resolves
\* marker 'F' on a background (or trailing) column outside a segment, with
\* the restored PS complete and the slot not restarted on this row, and it
\* grows by the slot's pixels; emitted objects are never changed afterwards;
\* and no pixel still to be scanned touches an emitted object.
C21_EarlyEmission ==
  /\ [][(pc = "col" /\ m_Objects' # m_Objects) =>
          /\ m_MARKER[xindx] = "F"
          /\ m_CS = NONOBJECT
          /\ (xindx < m_xpix => ~AssessPixel(Sample(xindx, yindx)))
          /\ m_PSSTACK[pstop - 1] = COMPLETE
          /\ m_START[co] = UNSET
          /\ m_Objects' = Append(m_Objects, appendAll(clear, m_INFO[co]))]_vars
  /\ [][(pc \in {"col", "row"}) =>
          (m_Objects = SubSeq(m_Objects', 1, Len(m_Objects)))]_vars
  /\ [](pc \in {"col", "row"} =>
          \A i \in 1..Len(m_Objects) : \A p \in PixSet(m_Objects[i]) :
             \A q \in Unscanned : ~Adj8(p, q))

\* An object was emitted and the scan still has foreground pixels ahead.
C21_Witness ==
  pc = "col" /\ ~oob /\ Len(m_Objects) > 0 /\ Unscanned # {}

\* The scan is at a column of the grid whose sample can be read.
AtColumn == pc = "col" /\ xindx < m_xpix /\ Readable(xindx, yindx)

\* The column holds a pixel above the threshold and no segment is open.
SegmentStarts ==
  AtColumn /\ AssessPixel(Sample(xindx, yindx)) /\ m_CS = NONOBJECT

\* The members when StartSegment is called at column xindx (lines 118-136).
BeforeSegment(ub) == [Cur(ub) EXCEPT !.MARKER[xindx] = NoMarker]

\* A push at column x from `pre`: the old PS is saved, a new empty slot
\* starts at x.
Pushed(pre, post, x) ==
  /\ post.pstop = pre.pstop + 1
  /\ post.PSSTACK[pre.pstop] = pre.PS
  /\ post.co = pre.co + 1
  /\ post.START[post.co] = x
  /\ post.INFO[post.co] = <<>>
  /\ post.MARKER[x] = "S"

\* C22 as stated: a segment that starts with PS in-object joins the open
\* fragment and leaves marker 's'; otherwise a slot is pushed and the marker
\* is 'S'.
C22_JoinMarksStartMinor ==
  SegmentStarts => \A ub \in UBOutcomes :
    LET pre == BeforeSegment(ub)
        post == StartSegment(pre, xindx)
    IN ~post.fault =>
         /\ post.CS = OBJECT
         /\ IF pre.PS = OBJECT
            THEN /\ post.co = pre.co /\ post.pstop = pre.pstop
                 /\ post.MARKER[xindx] = "s"
            ELSE Pushed(pre, post, xindx)

\* C22 amended: a segment that starts with PS in-object joins the open
\* fragment without a push; it leaves marker 'S' and records the column in
\* START[co] when the fragment has no start on this row yet, and marker 's'
\* otherwise.  With any other PS a slot is pushed and the marker is 'S'.
C22_JoinOrPush ==
  SegmentStarts => \A ub \in UBOutcomes :
    LET pre == BeforeSegment(ub)
        post == StartSegment(pre, xindx)
    IN ~post.fault =>
         /\ post.CS = OBJECT
         /\ IF pre.PS = OBJECT
            THEN /\ post.co = pre.co /\ post.pstop = pre.pstop
                 /\ post.INFO = pre.INFO /\ post.PS = OBJECT
                 /\ IF pre.START[pre.co] = UNSET
                    THEN /\ post.MARKER[xindx] = "S"
                         /\ post.START[post.co] = xindx
                    ELSE /\ post.MARKER[xindx] = "s"
                         /\ post.START = pre.START
            ELSE Pushed(pre, post, xindx)

\* A segment starts inside a fragment that has no start on this row yet and
\* StartSegment leaves marker 'S' without a push.
C22_Witness ==
  /\ SegmentStarts /\ ~oob /\ m_PS = OBJECT /\ m_START[co] = UNSET
  /\ LET post == StartSegment(BeforeSegment("segv"), xindx)
     IN ~post.fault /\ post.MARKER[xindx] = "S" /\ post.co = co

\* The scan is at the synthetic column that follows the row.
AtTrailing == pc = "col" /\ xindx >= m_xpix

\* The scan is at a background column of the grid or at the trailing one.
AtBackground ==
  AtTrailing \/ (AtColumn /\ ~AssessPixel(Sample(xindx, yindx)))

\* The members when EndSegment may be called at column xindx (lines 146-156
\* and 162-170): the marker of the row above has been cleared and resolved.
BeforeEnd(ub) ==
  LET prev_marker == m_MARKER[xindx]
      s1 == [Cur(ub) EXCEPT !.MARKER[xindx] = NoMarker]
  IN IF prev_marker # NoMarker
     THEN ProcessNewMarker(s1, prev_marker, xindx) ELSE s1

\* C23: when a segment ends at a background or trailing column, CS becomes
\* not-in-object; with PS not complete marker 'f' is written, END[co] is the
\* column and nothing else moves; with PS complete marker 'F' is written,
\* the slot's pixels are appended to STORE at its start column, the slot is
\* released and PS is popped from the saved-status stack.
C23_EndSegmentMinorOrMajor ==
  AtBackground => \A ub \in UBOutcomes :
    LET pre == BeforeEnd(ub)
        post == EndSegment(pre, xindx)
        k == pre.START[pre.co]
    IN (~pre.fault /\ pre.CS = OBJECT /\ ~post.fault) =>
         /\ post.CS = NONOBJECT
         /\ IF pre.PS # COMPLETE
            THEN /\ post.MARKER[xindx] = "f"
                 /\ post.END[post.co] = xindx
                 /\ post.co = pre.co /\ post.pstop = pre.pstop
                 /\ post.PS = pre.PS /\ post.PSSTACK = pre.PSSTACK
                 /\ post.INFO = pre.INFO /\ post.STORE = pre.STORE
                 /\ post.START = pre.START
            ELSE /\ post.MARKER[xindx] = "F"
                 /\ IF pre.INFO[pre.co] = <<>>
                    THEN post.STORE = pre.STORE
                    ELSE post.STORE =
                           [pre.STORE EXCEPT ![k] = @ \o pre.INFO[pre.co]]
                 /\ post.START[pre.co] = UNSET
                 /\ post.END[pre.co] = UNSET
                 /\ post.INFO[pre.co] = <<>>
                 /\ post.co = pre.co - 1
                 /\ post.pstop = pre.pstop - 1
                 /\ post.PS = pre.PSSTACK[pre.pstop - 1]

\* A segment ends with PS complete: its pixels reach STORE at its start.
C23_Witness ==
  /\ AtBackground /\ ~oob /\ m_CS = OBJECT
  /\ LET pre == BeforeEnd("segv")
         post == EndSegment(pre, xindx)
     IN /\ ~post.fault /\ pre.PS = COMPLETE /\ pre.INFO[pre.co] # <<>>
        /\ post.MARKER[xindx] = "F"
        /\ post.STORE[pre.START[pre.co]] = pre.INFO[pre.co]

\* What every resolution of 'S' at column x does: the old PS is saved,
\* STORE[x] ends empty and PS is in-object.
StartMajorCommon(pre, post, x) ==
  /\ post.PSSTACK[pre.pstop] = pre.PS
  /\ post.STORE[x] = <<>>
  /\ post.PS = OBJECT

\* A fresh slot holds exactly what waited in STORE[x].
FreshSlotFromStore(pre, post, x) ==
  /\ post.co = pre.co + 1
  /\ post.INFO[post.co] = pre.STORE[x]

\* C24 as stated: resolving 'S' at column x saves the old PS, allocates a
\* fresh slot holding exactly the pixels of STORE[x], empties STORE[x] and
\* sets PS to in-object.
C24_StartMajorAllocates ==
  (AtColumn /\ m_MARKER[xindx] = "S") => \A ub \in UBOutcomes :
    LET pre == BeforeMarker(ub)
        post == ResolveStartMajor(pre, xindx)
    IN (~pre.fault /\ ~post.fault) =>
         /\ StartMajorCommon(pre, post, xindx)
         /\ FreshSlotFromStore(pre, post, xindx)

\* C24 amended: resolving 'S' at column x saves the old PS, empties
\* STORE[x] and sets PS to in-object; outside a segment it also saves
\* 'complete' and allocates a fresh slot, with no start on this row, that
\* holds exactly the pixels of STORE[x]; inside a segment it allocates
\* nothing and appends the pixels of STORE[x] to the open slot.
C24_StartMajorAllocatesOrJoins ==
  (AtColumn /\ m_MARKER[xindx] = "S") => \A ub \in UBOutcomes :
    LET pre == BeforeMarker(ub)
        post == ResolveStartMajor(pre, xindx)
    IN (~pre.fault /\ ~post.fault) =>
         /\ StartMajorCommon(pre, post, xindx)
         /\ IF pre.CS = NONOBJECT
            THEN /\ FreshSlotFromStore(pre, post, xindx)
                 /\ post.START[post.co] = UNSET
                 /\ post.pstop = pre.pstop + 2
                 /\ post.PSSTACK[pre.pstop + 1] = COMPLETE
            ELSE /\ post.co = pre.co
                 /\ post.pstop = pre.pstop + 1
                 /\ post.INFO[post.co] = pre.INFO[pre.co] \o pre.STORE[xindx]
                 /\ post.START = pre.START

\* 'S' is resolved inside a segment: the waiting pixels join the open slot.
C24_Witness ==
  /\ AtColumn /\ ~oob /\ m_MARKER[xindx] = "S"
  /\ LET pre == BeforeMarker("segv")
         post == ResolveStartMajor(pre, xindx)
     IN /\ ~post.fault /\ pre.CS = OBJECT
        /\ pre.STORE[xindx] # <<>> /\ pre.INFO[pre.co] # <<>>
        /\ post.co = pre.co /\ post.STORE[xindx] = <<>>

\* The step that handles the synthetic trailing column and ends the row.
TrailingDone == pc = "col" /\ pc' = "row"

\* C25: a row is columns 0..width-1 in order and then one trailing step at
\* index width; that step resolves the marker the row above left at index
\* width, ends a segment that reached the last column with an end marker at
\* index width, and leaves CS not-in-object at the end of every row.
C25_TrailingColumn ==
  /\ [][(pc = "row" /\ pc' = "col") => xindx' = 0]_vars
  /\ [][(pc = "col" /\ pc' = "col") =>
          (xindx < m_xpix /\ xindx' = xindx + 1 /\ yindx' = yindx)]_vars
  /\ [][TrailingDone => (xindx = m_xpix /\ yindx' = yindx + 1)]_vars
  /\ [][TrailingDone =>
          /\ m_MARKER[m_xpix] = "f" => m_PS' = INCOMPLETE
          /\ m_MARKER[m_xpix] = "F" => pstop' < pstop
          /\ (m_MARKER[m_xpix] = NoMarker /\ m_CS = NONOBJECT) =>
               UNCHANGED <<memvars, co, pstop>>
          /\ m_CS # OBJECT => m_MARKER'[m_xpix] = NoMarker
          /\ m_CS = OBJECT => m_MARKER'[m_xpix] \in {"f", "F"}
          /\ m_CS' = NONOBJECT]_vars
  /\ []((pc = "row" /\ yindx > 0) => m_CS = NONOBJECT)

\* Two rows in a row reach the last column: the end marker of the upper one
\* was resolved at the trailing step of the lower one, which left its own.
C25_Witness ==
  /\ pc = "row" /\ ~oob /\ m_xpix >= 2 /\ yindx >= 2
  /\ AssessPixel(Sample(m_xpix - 1, yindx - 1))
  /\ AssessPixel(Sample(m_xpix - 1, yindx - 2))
  /\ m_MARKER[m_xpix] \in {"f", "F"}

\* Reference: pixel (x, y) of the grid is above the threshold.
IsForeground(x, y) ==
  0 <= x /\ x < m_xpix /\ AssessPixel(Sample(x, y))

\* Reference: the markers a finished row y may hold at index x: a start
\* marker where a run of foreground pixels begins, an end marker just
\* after one, nothing elsewhere.
MarkersOfRow(x, y) ==
  IF y < 0 THEN {NoMarker}
  ELSE IF IsForeground(x, y) /\ ~IsForeground(x - 1, y) THEN {"S", "s"}
  ELSE IF ~IsForeground(x, y) /\ IsForeground(x - 1, y) THEN {"f", "F"}
  ELSE {NoMarker}

\* C26: during the scan of row y the marker row holds, at the indices
\* already visited, only markers of row y and, at the indices still ahead,
\* exactly what row y-1 left there; when the row is finished it holds
\* markers of that row only.
C26_MarkerRowInPlace ==
  /\ pc = "col" =>
       \A x \in 0..m_xpix :
          m_MARKER[x] \in MarkersOfRow(x, IF x < xindx THEN yindx ELSE yindx - 1)
  /\ pc = "row" =>
       \A x \in 0..m_xpix : m_MARKER[x] \in MarkersOfRow(x, yindx - 1)

\* Mid-row: a marker of this row behind the scan, and ahead of it a marker
\* of the row above at an index where this row has none.
C26_Witness ==
  /\ pc = "col" /\ ~oob /\ yindx >= 1 /\ 0 < xindx /\ xindx < m_xpix
  /\ \E x \in 0..(xindx - 1) : m_MARKER[x] # NoMarker
  /\ \E x \in xindx..m_xpix :
        m_MARKER[x] # NoMarker /\ MarkersOfRow(x, yindx) = {NoMarker}

\* Positions of the pixels of a buffer.
PositionsOf(info) == {<<info[n].m_xbin, info[n].m_ybin>> : n \in DOMAIN info}

\* Reference: the pixels of S all lie in one 8-connected component.
InOneComponent(S) ==
  S = {} \/ S \subseteq ComponentOf(CHOOSE p \in S : TRUE, Foreground)

\* C27: a slot pushed at a segment start begins with an empty buffer and a
\* slot allocated by 'S' outside a segment begins with exactly the pixels of
\* STORE at that column, whatever the slot held before; so no live slot, no
\* STORE entry and no emitted object ever mixes pixels of two components.
C27_NoStalePixels ==
  /\ (SegmentStarts /\ m_PS # OBJECT) => \A ub \in UBOutcomes :
       LET post == StartSegment(BeforeSegment(ub), xindx)
       IN ~post.fault => (post.co = co + 1 /\ post.INFO[post.co] = <<>>)
  /\ (AtColumn /\ m_MARKER[xindx] = "S") => \A ub \in UBOutcomes :
       LET pre == BeforeMarker(ub)
           post == ResolveStartMajor(pre, xindx)
       IN (~pre.fault /\ pre.CS = NONOBJECT /\ ~post.fault) =>
            (post.co = pre.co + 1 /\ post.INFO[post.co] = pre.STORE[xindx])
  /\ pc \in {"col", "row", "done"} =>
       /\ \A c \in 1..co : InOneComponent(PositionsOf(m_INFO[c]))
       /\ \A x \in 0..(m_xpix - 1) : InOneComponent(PositionsOf(m_STORE[x]))
       /\ \A i \in 1..Len(m_Objects) : InOneComponent(PixSet(m_Objects[i]))

\* A push lands on a slot whose buffer still holds pixels of an earlier use.
C27_Witness ==
  /\ SegmentStarts /\ ~oob /\ m_PS # OBJECT
  /\ co + 1 < m_xpix /\ m_INFO[co + 1] # <<>>
  /\ LET post == StartSegment(BeforeSegment("segv"), xindx)
     IN ~post.fault /\ post.co = co + 1 /\ post.INFO[post.co] = <<>>

\* Column steps (trailing ones included) the scan has performed.
StepsDone == yindx * (m_xpix + 1) + (IF pc = "col" THEN xindx ELSE 0)

\* C28: on a grid of positive width and height run() is never cut short:
\* while it scans it has performed fewer than height*(width+1) column steps,
\* each inside the grid or at its trailing column, and it is not killed.
C28_RunCompletes ==
  (m_xpix >= 1 /\ m_ypix >= 1) =>
    /\ pc # "segv"
    /\ pc = "col" => (xindx <= m_xpix /\ StepsDone < m_ypix * (m_xpix + 1))
    /\ pc = "row" => StepsDone <= m_ypix * (m_xpix + 1)

\* Every pixel record held in the slots, in STORE or in the result list.
HeldPixels ==
  UNION ({PixelsOf(m_INFO[c]) : c \in 0..(m_xpix - 1)}
         \cup {PixelsOf(m_STORE[x]) : x \in 0..(m_xpix - 1)}
         \cup {PixelsOf(m_Objects[i].m_pixInfo) : i \in 1..Len(m_Objects)})

\* C29: run() never changes a sample; each column step reads the sample at
\* index width*row + col of a cell inside the grid; the trailing step reads
\* none, so every pixel record the labeler holds is a cell of the grid with
\* that cell's own sample.
C29_GridReadOnly ==
  /\ [][m_image' = m_image]_vars
  /\ []((pc = "col" /\ xindx < m_xpix) =>
          /\ 0 <= xindx /\ 0 <= yindx /\ yindx < m_ypix
          /\ Readable(xindx, yindx))
  /\ [](pc = "col" => xindx <= m_xpix)
  /\ [](pc \in {"col", "row", "done"} =>
          \A p \in HeldPixels :
             /\ 0 <= p.m_xbin /\ p.m_xbin < m_xpix
             /\ 0 <= p.m_ybin /\ p.m_ybin < m_ypix
             /\ p.m_value = m_image[m_xpix * p.m_ybin + p.m_xbin])

\* The last sample of the grid has been read and buffered; the trailing
\* column of the last row is next.
C29_Witness ==
  /\ pc = "col" /\ ~oob /\ m_xpix >= 2 /\ m_ypix >= 2
  /\ xindx = m_xpix /\ yindx = m_ypix - 1
  /\ \E p \in HeldPixels : p.m_xbin = m_xpix - 1 /\ p.m_ybin = m_ypix - 1

\* C30: when a row is finished, and when run() has returned, co and pstop
\* are both 0: no slot is live between rows or at the final flush.
C30_StacksBalanced ==
  pc \in {"row", "done"} => (co = 0 /\ pstop = 0)

\* A row with two segments under a row with pixels has just been finished.
C30_Witness ==
  /\ pc = "row" /\ ~oob /\ yindx >= 2
  /\ Cardinality({x \in 0..m_xpix : m_MARKER[x] \in {"S", "s"}}) >= 2
  /\ \E x \in 0..(m_xpix - 1) : Len(m_STORE[x]) >= 2
  /\ co = 0 /\ pstop = 0

\* STORE and the marker row agree at column x.
StoreUnderStartMajor(x) == (m_STORE[x] # <<>>) <=> (m_MARKER[x] = "S")

\* C31: when a row is finished STORE[x] is non-empty exactly at the columns
\* whose marker is 'S'; the same holds during the next row at the columns
\* the scan has not reached, so a marker 's' is never resolved over a
\* non-empty STORE entry.
C31_StoreMatchesMarkers ==
  /\ pc = "row" => \A x \in 0..(m_xpix - 1) : StoreUnderStartMajor(x)
  /\ pc = "col" => \A x \in xindx..(m_xpix - 1) : StoreUnderStartMajor(x)

\* A finished row left both a start-major marker over buffered pixels and a
\* start-minor marker over an empty STORE entry.
C31_Witness ==
  /\ pc = "row" /\ ~oob /\ yindx >= 1
  /\ \E x \in 0..(m_xpix - 1) : m_MARKER[x] = "S" /\ m_STORE[x] # <<>>
  /\ \E x \in 0..(m_xpix - 1) : m_MARKER[x] = "s" /\ m_STORE[x] = <<>>

\* The column step at hand resolves 'F' outside a segment for a slot that
\* did not restart on this row and holds pixels: WriteObject gets m_INFO[co].
FragmentWritten ==
  /\ AtBackground /\ pc' # "segv"
  /\ m_MARKER[xindx] = "F" /\ m_CS = NONOBJECT
  /\ m_PSSTACK[pstop - 1] = COMPLETE
  /\ m_START[co] = UNSET /\ m_INFO[co] # <<>>

\* C32: with a negative minimum size the result list stays empty through
\* the whole run; with minimum 0 every non-empty fragment handed to
\* WriteObject, during the scan or at the flush, becomes an object.
C32_NegativeMinimumEmitsNothing ==
  /\ []((m_npixelmin < 0 /\ pc \in {"row", "col", "done"}) => m_Objects = <<>>)
  /\ [][(FragmentWritten /\ m_npixelmin = 0) =>
          m_Objects' = Append(m_Objects, appendAll(clear, m_INFO[co]))]_vars
  /\ [][(pc = "row" /\ pc' = "done" /\ m_npixelmin = 0) =>
          Len(m_Objects') = Len(m_Objects)
             + Cardinality({x \in 0..(m_xpix - 1) : m_STORE[x] # <<>>})]_vars

\* run() has returned nothing for a grid with foreground pixels scanned
\* under a negative minimum size.
C32_Witness ==
  /\ Returned /\ ~oob /\ m_npixelmin < 0
  /\ Foreground # {} /\ m_Objects = <<>>

====
